---- MODULE Spec2Model ----
(***************************************************************************)
(* Model of the JOSS harvesting pipeline of src/src/main.py and            *)
(* src/src/db.py: pagination, the concurrent page batch, front-matter      *)
(* assembly, metadata extraction, the concurrent DOI batch, repository     *)
(* extraction and the three appends to the SQLite tables.                  *)
(*                                                                         *)
(* Strings that the code takes apart are sequences of tokens: a URL is     *)
(* <<origin, path, "=", digit, ...>>.  An HTML document is the structure   *)
(* BeautifulSoup's find/find_all would recover from it.  A pandas          *)
(* DataFrame is a record [columns, index, rows], where index[i] is the     *)
(* index label of row i, written to SQL as the row's id column.            *)
(***************************************************************************)
EXTENDS Integers, Sequences, FiniteSets, TLC

\* ---------------------------------------------------------------- bounds
\* Largest page count of the site in the pipeline specifications.
MaxPages == 2
\* Largest number of paper cards on the whole site.
MaxCards == 2
\* Worker threads of a ThreadPoolExecutor() (min(32, cpus + 4) at run time).
MaxWorkers == 2
\* Largest document count drawn for the pagination arithmetic alone.
MaxDocs == 120
\* Longest DOI anchor target, in tokens, drawn for the normalization alone.
MaxHrefLen == 3
\* Most language badges on one paper card.
MaxBadges == 2

\* ------------------------------------------------------- program constants
PageSize == 20
Origin == "https://joss.theoj.org"

VARIABLES
    web,          \* the site: what each URL answers, as far as requested
    pc,           \* position of main()
    error,        \* exception that ended main(), "" if none
    totalDocs,    \* getTotalNumberOfDocumentsAndPages: "docs"
    totalPages,   \* getTotalNumberOfDocumentsAndPages: "pages"
    queue,        \* executor work queue: tasks submitted and not yet taken
    running,      \* tasks a worker thread is executing (inside getPage)
    raised,       \* tasks of the latest batch whose future holds an exception
    resps,        \* the shared collector `resps` of the latest batch
    hfmDF,        \* main(): hfmDF
    pmDF,         \* main(): pmDF
    rDF,          \* main(): rDF
    front_matter, \* table front_matter
    metadata,     \* table metadata
    software,     \* table software
    run,          \* 1 for the run, 2 for a second run against the same site
    prev,         \* what the first run ended with (second run only)
    fetched       \* the URLs getPage was called with, in call order

vars == <<web, pc, error, totalDocs, totalPages, queue, running, raised, resps,
          hfmDF, pmDF, rDF, front_matter, metadata, software, run, prev, fetched>>

\* ------------------------------------------------------------ small helpers
Range(s) == {s[i] : i \in DOMAIN s}

\* str(n) in decimal, as a sequence of digits (the f-string of _run).
DigitChars == <<"0", "1", "2", "3", "4", "5", "6", "7", "8", "9">>

RECURSIVE Digits(_)
Digits(n) ==
    IF n < 10 THEN <<DigitChars[n + 1]>>
    ELSE Digits(n \div 10) \o <<DigitChars[(n % 10) + 1]>>

\* int(s) for a sequence of decimal digits.
DigitValue(c) == (CHOOSE i \in DOMAIN DigitChars : DigitChars[i] = c) - 1

RECURSIVE ParseInt(_)
ParseInt(ds) ==
    IF Len(ds) = 1 THEN DigitValue(ds[1])
    ELSE 10 * ParseInt(SubSeq(ds, 1, Len(ds) - 1)) + DigitValue(ds[Len(ds)])

\* s.split(sep): the pieces of s between the occurrences of sep.
RECURSIVE Split(_, _)
Split(s, sep) ==
    IF \A i \in DOMAIN s : s[i] # sep THEN <<s>>
    ELSE LET k == CHOOSE i \in DOMAIN s :
                      s[i] = sep /\ \A j \in 1..(i - 1) : s[j] # sep
         IN <<SubSeq(s, 1, k - 1)>> \o Split(SubSeq(s, k + 1, Len(s)), sep)

\* f"https://joss.theoj.org/papers?page={page}"
PageURL(page) == <<Origin, "/papers?page", "=">> \o Digits(page)

\* int(resp.url.split("=")[1])
PageOfURL(url) == ParseInt(Split(url, "=")[2])

\* ------------------------------------------------------------- pagination
\* Variant: one page too many when the last page is full.
TotalPagesOf_AlwaysExtra(docs) == (docs \div PageSize) + 1

\* (totalDocs // 20) + 1 if totalDocs % 20 != 0 else totalDocs // 20
TotalPagesOf(docs) ==
    IF docs % PageSize # 0 THEN (docs \div PageSize) + 1 ELSE docs \div PageSize

\* ------------------------------------------------------------------ the site
\* A paper card is named by <<page, position>>; its title is that name.
\* The DOI anchor of a card is site-relative at odd positions and absolute at
\* even ones (both forms occur on the site).
PaperPath(key) == <<"/papers/">> \o Digits(key[1]) \o <<".">> \o Digits(key[2])
DoiHref(key) ==
    IF key[2] % 2 = 0 THEN <<Origin>> \o PaperPath(key) ELSE PaperPath(key)
\* What a card may lack (each makes a card.find(...) of the loop return None).
MissingKinds == {"status", "time", "title", "submitter", "doi"}

\* A language-badge fragment: <span class="badge-lang"><a href=uri>language</a>
\* </span>, with or without white space around its text and its href, and
\* with or without the anchor.
Badge(language, uri, padded, anchor) ==
    [language |-> language, uri |-> uri, padded |-> padded, anchor |-> anchor]
BadgeText(badge) ==
    IF badge.padded THEN <<" ", badge.language, " ">> ELSE <<badge.language>>
BadgeHref(badge) ==
    IF badge.padded THEN <<badge.uri, " ">> ELSE <<badge.uri>>
\* The first card of a page shows Python then C++, the others no language.
BadgesOf(key) ==
    IF key[2] = 1 THEN <<Badge("Python", "/l/py", FALSE, TRUE),
                         Badge("C++", "/l/cpp", TRUE, TRUE)>>
    ELSE <<>>

Card(key, missing) ==
    [key |-> key, missing |-> missing, href |-> DoiHref(key), badges |-> BadgesOf(key)]

ListingPage(p, up, n, missing) ==
    [net |-> up,
     url |-> PageURL(p),
     status_code |-> 200,
     html |-> [cards |-> [i \in 1..n |-> Card(<<p, i>>, missing[<<p, i>>])]]]

\* What the landing page of a paper may answer: a network failure, an error
\* page (no button group), a button group without an anchor, or a page whose
\* button group links the repository first and the review second.
LandingKinds == {"neterr", "nodiv", "noanchor", "repo"}
RepoURL(doi) == <<"https://github.com">> \o SubSeq(doi, 2, Len(doi))
ReviewURL(doi) == <<"https://github.com/openjournals/joss-reviews">> \o SubSeq(doi, 2, Len(doi))

LandingPage(doi, kind) ==
    [net |-> kind # "neterr",
     url |-> doi,
     status_code |-> IF kind = "nodiv" THEN 404 ELSE 200,
     html |-> [div |-> kind \in {"noanchor", "repo"},
               links |-> IF kind = "repo" THEN <<RepoURL(doi), ReviewURL(doi)>>
                         ELSE <<>>]]

Keys(counts) == {k \in (DOMAIN counts) \X (1..MaxCards) : k[2] <= counts[k[1]]}

RECURSIVE Sum(_, _)
Sum(f, n) == IF n = 0 THEN 0 ELSE f[n] + Sum(f, n - 1)

\* The paginated site: the root's pagination summary and the listing pages.
\* The landing pages join `site` as they are first requested.
MkWeb(root, up, counts, missing) ==
    [root |-> root,
     site |-> [u \in {PageURL(p) : p \in DOMAIN counts} |->
                 LET p == CHOOSE p \in DOMAIN counts : u = PageURL(p)
                 IN ListingPage(p, up[p], counts[p], missing)]]

\* Document counts the root may announce: one document, and the full pages up
\* to MaxPages.
DocChoices == {1} \cup {PageSize * p : p \in 0..MaxPages}

Roots ==
    {[net |-> FALSE, marker |-> "none", docs |-> 0],
     [net |-> TRUE, marker |-> "none", docs |-> 0],
     [net |-> TRUE, marker |-> "malformed", docs |-> 0]}
    \cup {[net |-> TRUE, marker |-> "ok", docs |-> d] : d \in DocChoices}

PagesOfRoot(root) ==
    IF root.net /\ root.marker = "ok" THEN TotalPagesOf(root.docs) ELSE 0

\* The sites a run may meet: a page that does not answer shows no cards.
Webs(root) ==
    LET P == PagesOfRoot(root)
        shapes == {sh \in [1..P -> BOOLEAN] \X [1..P -> 0..MaxCards] :
                     /\ Sum(sh[2], P) <= MaxCards
                     /\ \A p \in 1..P : ~sh[1][p] => sh[2][p] = 0}
    IN UNION {{MkWeb(root, sh[1], sh[2], missing) :
                  missing \in [Keys(sh[2]) -> MissingKinds \cup {"none"}]} : sh \in shapes}

\* What the site answers to a request: a URL answers the same every time.
Answers(url) ==
    IF url \in DOMAIN web.site THEN {web.site[url]}
    ELSE {LandingPage(url, kind) : kind \in LandingKinds}

Visit(url, answer) == web' = [web EXCEPT !.site = (url :> answer) @@ @]

\* ------------------------------------------------------------- DataFrames
NoDF == [columns |-> {}, index |-> <<>>, rows |-> <<>>]

\* DataFrame(data=<list of dicts>): the columns are the keys of the dicts (none
\* for an empty list), the index is the RangeIndex 0..n-1.
DataFrame(data) ==
    [columns |-> IF data = <<>> THEN {} ELSE DOMAIN data[1],
     index |-> [i \in 1..Len(data) |-> i - 1],
     rows |-> data]

\* DataFrame(data=<dict of lists>): the columns are the dict's keys, also when
\* the lists are empty.
DataFrameOfColumns(columns, data) ==
    [columns |-> columns,
     index |-> [i \in 1..Len(data) |-> i - 1],
     rows |-> data]

\* Insertion of one row into rows already ascending by page.
RECURSIVE InsertByPage(_, _)
InsertByPage(sorted, r) ==
    IF sorted = <<>> THEN <<r>>
    ELSE IF r.page < Head(sorted).page THEN <<r>> \o sorted
    ELSE <<Head(sorted)>> \o InsertByPage(Tail(sorted), r)

RECURSIVE SortRowsByPage(_)
SortRowsByPage(rows) ==
    IF rows = <<>> THEN <<>>
    ELSE InsertByPage(SortRowsByPage(SubSeq(rows, 1, Len(rows) - 1)), rows[Len(rows)])

\* Variant: the frame is returned in arrival order, never sorted.
sort_values_Unsorted(df) ==
    [columns |-> df.columns,
     index |-> [i \in 1..Len(df.rows) |-> i - 1],
     rows |-> df.rows]

\* df.sort_values(by="page", ignore_index=True): rows ascending by page, index
\* relabelled 0..n-1.
sort_values(df) ==
    [columns |-> df.columns,
     index |-> [i \in 1..Len(df.rows) |-> i - 1],
     rows |-> SortRowsByPage(df.rows)]

\* Variant: index=False, the store numbers the rows itself, from 1.
to_sql_Autoincrement(df, table) ==
    table \o [i \in 1..Len(df.rows) |-> [id |-> Len(table) + i, row |-> df.rows[i]]]

\* df.to_sql(name, if_exists="append", index=True, index_label="id"): one row
\* per DataFrame row, its id column holding the row's index label.
to_sql(df, table) ==
    table \o [i \in 1..Len(df.rows) |-> [id |-> df.index[i], row |-> df.rows[i]]]

\* ------------------------------------------------------------------ getPage
\* requests.get(url, ...) when the site answers `answer`: a Response, or an
\* exception when the URL does not answer.
getPage(url, answer) ==
    [raises |-> ~answer.net,
     resp |-> [url |-> answer.url, status_code |-> answer.status_code,
               content |-> answer.html]]

\* ------------------------------------------------------ metadata extraction
Contains(s, token) == \E i \in DOMAIN s : s[i] = token

\* if doi.__contains__("https://joss.theoj.org"): pass
\* else: doi = "https://joss.theoj.org" + doi
NormalizeDoi(doi) == IF Contains(doi, Origin) THEN doi ELSE <<Origin>> \o doi

\* s.strip(): s without the white space at its ends.
RECURSIVE Strip(_)
Strip(s) ==
    IF s = <<>> THEN s
    ELSE IF Head(s) = " " THEN Strip(Tail(s))
    ELSE IF s[Len(s)] = " " THEN Strip(SubSeq(s, 1, Len(s) - 1))
    ELSE s

\* Variant: each badge is put in front of the ones collected so far.
RECURSIVE BadgesDatum_Prepending(_, _)
BadgesDatum_Prepending(badges, badgesDatum) ==
    IF badges = <<>> THEN badgesDatum
    ELSE BadgesDatum_Prepending(Tail(badges),
             <<[language |-> Strip(BadgeText(Head(badges))),
                uri |-> Strip(BadgeHref(Head(badges)))]>> \o badgesDatum)

\* for badge in badges: badgesDatum.append({"language": ..., "uri": ...})
RECURSIVE BadgesDatum(_, _)
BadgesDatum(badges, badgesDatum) ==
    IF badges = <<>> THEN badgesDatum
    ELSE BadgesDatum(Tail(badges),
             Append(badgesDatum, [language |-> Strip(BadgeText(Head(badges))),
                                  uri |-> Strip(BadgeHref(Head(badges)))]))

\* json.dumps of the badge list: the text written between the values.
DumpsEntry(entry) ==
    <<"{\"language\": \"">> \o entry.language \o <<"\", \"uri\": \"">>
        \o entry.uri \o <<"\"}">>
RECURSIVE Dumps(_)
Dumps(obj) ==
    IF obj = <<>> THEN <<"[", "]">>
    ELSE IF Len(obj) = 1 THEN <<"[">> \o DumpsEntry(obj[1]) \o <<"]">>
    ELSE <<"[">> \o DumpsEntry(obj[1]) \o <<", ">> \o Tail(Dumps(Tail(obj)))

\* badge.find(name="a") is None for a badge without an anchor.
BadgeRaises(card) == \E i \in DOMAIN card.badges : ~card.badges[i].anchor

\* Variant: the record is tagged with the page number of the card.
CardDatum_PageNumber(idx, card) ==
    [front_matter_id |-> card.key[1], title |-> card.key,
     badges |-> Dumps(BadgesDatum(card.badges, <<>>)), doi |-> NormalizeDoi(card.href)]

\* The dict appended to `data` for one card of the front-matter row idx.
CardDatum(idx, card) ==
    [front_matter_id |-> idx, title |-> card.key,
     badges |-> Dumps(BadgesDatum(card.badges, <<>>)), doi |-> NormalizeDoi(card.href)]

\* Variant: an incomplete card is skipped.
RECURSIVE ExtractCards_Skipping(_, _, _)
ExtractCards_Skipping(idx, cards, data) ==
    IF cards = <<>> THEN [raises |-> FALSE, data |-> data]
    ELSE IF Head(cards).missing # "none" THEN ExtractCards_Skipping(idx, Tail(cards), data)
    ELSE ExtractCards_Skipping(idx, Tail(cards),
             Append(data, [front_matter_id |-> idx, title |-> Head(cards).key,
                           badges |-> Dumps(BadgesDatum(Head(cards).badges, <<>>)),
                           doi |-> NormalizeDoi(Head(cards).href)]))

\* The loop over the cards of one page: card.find(...) is None for a missing
\* element, and the attribute access on None raises AttributeError.
RECURSIVE ExtractCards(_, _, _)
ExtractCards(idx, cards, data) ==
    IF cards = <<>> THEN [raises |-> FALSE, data |-> data]
    ELSE IF Head(cards).missing # "none" \/ BadgeRaises(Head(cards))
         THEN [raises |-> TRUE, data |-> data]
    ELSE ExtractCards(idx, Tail(cards), Append(data, CardDatum(idx, Head(cards))))

\* The loop over df.iterrows(), from row i on.
RECURSIVE ExtractRows(_, _, _)
ExtractRows(df, i, data) ==
    IF i > Len(df.rows) THEN [raises |-> FALSE, data |-> data]
    ELSE LET r == ExtractCards(df.index[i], df.rows[i].html.cards, data)
         IN IF r.raises THEN r ELSE ExtractRows(df, i + 1, r.data)

\* extractPaperMetadata(df): the DataFrame of the collected dicts, or the
\* exception of the first incomplete card.
extractPaperMetadata(df) ==
    LET r == ExtractRows(df, 1, <<>>)
    IN [raises |-> r.raises, df |-> IF r.raises THEN NoDF ELSE DataFrame(r.data)]

\* ---------------------------------------------------- repository extraction
\* list(df["doi"].to_dict().items()): the (index label, doi) pairs.
Dois(df) == [i \in 1..Len(df.rows) |-> <<df.index[i], df.rows[i].doi>>]

\* Variant: the response is numbered by its position in the collector.
RunDatum_Position(pairing, resp) == <<Len(resps), resp>>

\* datum = (pairing[0], resp)
RunDatum(pairing, resp) == <<pairing[1], resp>>

\* Variant: a page without the button group or without an anchor yields a
\* record with an empty repository URL.
RECURSIVE ExtractRepositories_Lenient(_, _)
ExtractRepositories_Lenient(rs, data) ==
    IF rs = <<>> THEN [raises |-> FALSE, data |-> data]
    ELSE LET metadataID == Head(rs)[1]
             html == Head(rs)[2].content
         IN ExtractRepositories_Lenient(Tail(rs),
                Append(data, [metadata_id |-> metadataID,
                              status_code |-> Head(rs)[2].status_code,
                              repository_url |-> IF ~html.div \/ html.links = <<>>
                                                 THEN <<>> ELSE html.links[1],
                              html |-> html]))

\* The loop over `resps`: soup.find(div) is None without the button group and
\* buttonsDiv.find("a") is None without an anchor; both raise AttributeError.
RECURSIVE ExtractRepositories(_, _)
ExtractRepositories(rs, data) ==
    IF rs = <<>> THEN [raises |-> FALSE, data |-> data]
    ELSE LET metadataID == Head(rs)[1]
             html == Head(rs)[2].content
         IN IF ~html.div \/ html.links = <<>> THEN [raises |-> TRUE, data |-> data]
            ELSE ExtractRepositories(Tail(rs),
                     Append(data, [metadata_id |-> metadataID,
                                   status_code |-> Head(rs)[2].status_code,
                                   repository_url |-> html.links[1],
                                   html |-> html]))

\* ------------------------------------------------------------ the pipeline
NoPrev == [pc |-> "none", error |-> "", front_matter |-> <<>>,
           metadata |-> <<>>, software |-> <<>>]

\* State of main() after DB(fp) and db.createTables() on a fresh output file.
Fresh ==
    /\ pc = "pagination"
    /\ error = ""
    /\ totalDocs = 0
    /\ totalPages = 0
    /\ queue = <<>>
    /\ running = {}
    /\ raised = {}
    /\ resps = <<>>
    /\ hfmDF = NoDF
    /\ pmDF = NoDF
    /\ rDF = NoDF
    /\ front_matter = <<>>
    /\ metadata = <<>>
    /\ software = <<>>
    /\ fetched = <<>>

Init ==
    /\ \E root \in Roots : web \in Webs(root)
    /\ Fresh
    /\ run = 1
    /\ prev = NoPrev

\* An exception reaches main(): the process ends, nothing more is written.
Abort(e) ==
    /\ pc' = "aborted"
    /\ error' = e
    /\ queue' = <<>>
    /\ running' = {}
    /\ raised' = {}
    /\ resps' = <<>>

\* url="https://joss.theoj.org/papers"
RootURL == <<Origin, "/papers">>

\* Variant: a failed bootstrap is swallowed and one page is assumed.
getTotalNumberOfDocumentsAndPages_Lenient ==
    /\ pc = "pagination"
    /\ fetched' = Append(fetched, RootURL)
    /\ totalDocs' = IF web.root.net /\ web.root.marker = "ok" THEN web.root.docs ELSE 1
    /\ totalPages' = IF web.root.net /\ web.root.marker = "ok"
                      THEN TotalPagesOf(web.root.docs) ELSE 1
    /\ pc' = "frontmatter"
    /\ UNCHANGED <<error, queue, running, raised, resps>>
    /\ UNCHANGED <<web, hfmDF, pmDF, rDF, front_matter, metadata, software, run, prev>>

getTotalNumberOfDocumentsAndPages ==
    /\ pc = "pagination"
    /\ fetched' = Append(fetched, RootURL)
    /\ IF ~web.root.net THEN
           Abort("ConnectionError") /\ UNCHANGED <<totalDocs, totalPages>>
       ELSE IF web.root.marker = "none" THEN
           Abort("AttributeError") /\ UNCHANGED <<totalDocs, totalPages>>
       ELSE IF web.root.marker # "ok" THEN
           Abort("ValueError") /\ UNCHANGED <<totalDocs, totalPages>>
       ELSE
           /\ totalDocs' = web.root.docs
           /\ totalPages' = TotalPagesOf(web.root.docs)
           /\ pc' = "frontmatter"
           /\ UNCHANGED <<error, queue, running, raised, resps>>
    /\ UNCHANGED <<web, hfmDF, pmDF, rDF, front_matter, metadata, software, run, prev>>

\* getJOSSHTMLFrontMatter up to executor.map(_run, range(1, pages + 1)).
\* Variant: the page numbers are those of range(0, pages + 1).
SubmitPages_FromZero ==
    /\ pc = "frontmatter"
    /\ queue' = [i \in 1..(totalPages + 1) |-> i - 1]
    /\ resps' = <<>>
    /\ raised' = {}
    /\ pc' = "pagebatch"
    /\ UNCHANGED <<web, error, totalDocs, totalPages, running,
                   hfmDF, pmDF, rDF, front_matter, metadata, software, run, prev, fetched>>

SubmitPages ==
    /\ pc = "frontmatter"
    /\ queue' = [i \in 1..totalPages |-> i]
    /\ resps' = <<>>
    /\ raised' = {}
    /\ pc' = "pagebatch"
    /\ UNCHANGED <<web, error, totalDocs, totalPages, running,
                   hfmDF, pmDF, rDF, front_matter, metadata, software, run, prev, fetched>>

\* The URL the _run of a task calls getPage with: the page's URL in the page
\* batch, pairing[1] in the DOI batch.
TaskURL(task) == IF pc = "pagebatch" THEN PageURL(task) ELSE task[2]

\* Variant: every submitted task gets a thread of its own.
WorkerTakes_Unbounded ==
    /\ pc \in {"pagebatch", "doibatch"}
    /\ queue # <<>>
    /\ running' = running \cup {Head(queue)}
    /\ queue' = Tail(queue)
    /\ fetched' = Append(fetched, TaskURL(Head(queue)))
    /\ UNCHANGED <<web, pc, error, totalDocs, totalPages, raised, resps,
                   hfmDF, pmDF, rDF, front_matter, metadata, software, run, prev>>

\* A worker thread of the pool takes the next submitted task and calls getPage.
WorkerTakes ==
    /\ pc \in {"pagebatch", "doibatch"}
    /\ queue # <<>>
    /\ Cardinality(running) < MaxWorkers
    /\ running' = running \cup {Head(queue)}
    /\ queue' = Tail(queue)
    /\ fetched' = Append(fetched, TaskURL(Head(queue)))
    /\ UNCHANGED <<web, pc, error, totalDocs, totalPages, raised, resps,
                   hfmDF, pmDF, rDF, front_matter, metadata, software, run, prev>>

\* _run(page) of getJOSSHTMLFrontMatter when getPage returns.
PageRun(page) ==
    /\ pc = "pagebatch"
    /\ page \in running
    /\ \E answer \in Answers(PageURL(page)) :
          /\ ~getPage(PageURL(page), answer).raises
          /\ resps' = Append(resps, getPage(PageURL(page), answer).resp)
          /\ Visit(PageURL(page), answer)
    /\ running' = running \ {page}
    /\ UNCHANGED <<pc, error, totalDocs, totalPages, queue, raised,
                   hfmDF, pmDF, rDF, front_matter, metadata, software, run, prev, fetched>>

\* Variant: the exception of a page fetch reaches main().
PageRunRaises_Propagates(page) ==
    /\ pc = "pagebatch"
    /\ page \in running
    /\ \E answer \in Answers(PageURL(page)) :
          /\ getPage(PageURL(page), answer).raises
          /\ Visit(PageURL(page), answer)
    /\ Abort("ConnectionError")
    /\ UNCHANGED <<totalDocs, totalPages,
                   hfmDF, pmDF, rDF, front_matter, metadata, software, run, prev, fetched>>

\* _run(page) when getPage raises: the exception stays in the task's future,
\* which executor.map's unread iterator never re-raises.
PageRunRaises(page) ==
    /\ pc = "pagebatch"
    /\ page \in running
    /\ \E answer \in Answers(PageURL(page)) :
          /\ getPage(PageURL(page), answer).raises
          /\ Visit(PageURL(page), answer)
    /\ raised' = raised \cup {page}
    /\ running' = running \ {page}
    /\ UNCHANGED <<pc, error, totalDocs, totalPages, queue, resps,
                   hfmDF, pmDF, rDF, front_matter, metadata, software, run, prev, fetched>>

\* The `data` columns built from `resps`, one row per collected response.
FrontMatterData(rs) ==
    [i \in 1..Len(rs) |->
        [url |-> rs[i].url, page |-> PageOfURL(rs[i].url),
         status_code |-> rs[i].status_code, html |-> rs[i].content]]

\* Variant: the response loop starts without waiting for the pool.
getJOSSHTMLFrontMatter_NoJoin ==
    /\ pc = "pagebatch"
    /\ hfmDF' = sort_values(DataFrameOfColumns({"url", "page", "status_code", "html"},
                                               FrontMatterData(resps)))
    /\ pc' = "metadata"
    /\ UNCHANGED <<web, error, totalDocs, totalPages, queue, running, raised, resps,
                   pmDF, rDF, front_matter, metadata, software, run, prev, fetched>>

\* getJOSSHTMLFrontMatter after the executor's with-block has joined every
\* task: the response loop and the sorted DataFrame.
getJOSSHTMLFrontMatter ==
    /\ pc = "pagebatch"
    /\ queue = <<>>
    /\ running = {}
    /\ hfmDF' = sort_values(DataFrameOfColumns({"url", "page", "status_code", "html"},
                                               FrontMatterData(resps)))
    /\ pc' = "metadata"
    /\ UNCHANGED <<web, error, totalDocs, totalPages, queue, running, raised, resps,
                   pmDF, rDF, front_matter, metadata, software, run, prev, fetched>>

\* Variant: the front matter is written as soon as its metadata is extracted.
main_extractPaperMetadata_WritesEarly ==
    /\ pc = "metadata"
    /\ LET r == extractPaperMetadata(hfmDF)
       IN IF r.raises THEN Abort("AttributeError") /\ UNCHANGED <<pmDF, front_matter>>
          ELSE /\ pmDF' = r.df
               /\ front_matter' = to_sql(hfmDF, front_matter)
               /\ pc' = "repository"
               /\ UNCHANGED <<error, queue, running, raised, resps>>
    /\ UNCHANGED <<web, totalDocs, totalPages, hfmDF, rDF,
                   metadata, software, run, prev, fetched>>

main_extractPaperMetadata ==
    /\ pc = "metadata"
    /\ LET r == extractPaperMetadata(hfmDF)
       IN IF r.raises THEN Abort("AttributeError") /\ UNCHANGED pmDF
          ELSE /\ pmDF' = r.df
               /\ pc' = "repository"
               /\ UNCHANGED <<error, queue, running, raised, resps>>
    /\ UNCHANGED <<web, totalDocs, totalPages, hfmDF, rDF,
                   front_matter, metadata, software, run, prev, fetched>>

\* Variant: a frame without the doi column yields no task instead of KeyError.
SubmitDois_NoKeyError ==
    /\ pc = "repository"
    /\ queue' = IF "doi" \notin pmDF.columns THEN <<>> ELSE
                   [i \in 1..Len(pmDF.rows) |-> <<pmDF.index[i], pmDF.rows[i].doi>>]
    /\ resps' = <<>>
    /\ raised' = {}
    /\ pc' = "doibatch"
    /\ UNCHANGED <<error, running>>
    /\ UNCHANGED <<web, totalDocs, totalPages, hfmDF, pmDF, rDF,
                   front_matter, metadata, software, run, prev, fetched>>

\* extractRepositoryFromMetadata up to executor.map(_run, dois); df["doi"]
\* raises KeyError on a DataFrame without that column.
SubmitDois ==
    /\ pc = "repository"
    /\ IF "doi" \notin pmDF.columns THEN Abort("KeyError")
       ELSE /\ queue' = Dois(pmDF)
            /\ resps' = <<>>
            /\ raised' = {}
            /\ pc' = "doibatch"
            /\ UNCHANGED <<error, running>>
    /\ UNCHANGED <<web, totalDocs, totalPages, hfmDF, pmDF, rDF,
                   front_matter, metadata, software, run, prev, fetched>>

\* Variant: an append made while another task is in flight is lost.
DoiRun_LostUpdate(pairing) ==
    /\ pc = "doibatch"
    /\ pairing \in running
    /\ \E answer \in Answers(pairing[2]) :
          /\ ~getPage(pairing[2], answer).raises
          /\ resps' = IF running = {pairing}
                       THEN Append(resps, RunDatum(pairing, getPage(pairing[2], answer).resp))
                       ELSE resps
          /\ Visit(pairing[2], answer)
    /\ running' = running \ {pairing}
    /\ UNCHANGED <<pc, error, totalDocs, totalPages, queue, raised,
                   hfmDF, pmDF, rDF, front_matter, metadata, software, run, prev, fetched>>

\* _run(pairing) of extractRepositoryFromMetadata when getPage returns.
DoiRun(pairing) ==
    /\ pc = "doibatch"
    /\ pairing \in running
    /\ \E answer \in Answers(pairing[2]) :
          /\ ~getPage(pairing[2], answer).raises
          /\ resps' = Append(resps, RunDatum(pairing, getPage(pairing[2], answer).resp))
          /\ Visit(pairing[2], answer)
    /\ running' = running \ {pairing}
    /\ UNCHANGED <<pc, error, totalDocs, totalPages, queue, raised,
                   hfmDF, pmDF, rDF, front_matter, metadata, software, run, prev, fetched>>

\* _run(pairing) when getPage raises.
DoiRunRaises(pairing) ==
    /\ pc = "doibatch"
    /\ pairing \in running
    /\ \E answer \in Answers(pairing[2]) :
          /\ getPage(pairing[2], answer).raises
          /\ Visit(pairing[2], answer)
    /\ raised' = raised \cup {pairing}
    /\ running' = running \ {pairing}
    /\ UNCHANGED <<pc, error, totalDocs, totalPages, queue, resps,
                   hfmDF, pmDF, rDF, front_matter, metadata, software, run, prev, fetched>>

\* extractRepositoryFromMetadata after the with-block: the loop over `resps`.
extractRepositoryFromMetadata ==
    /\ pc = "doibatch"
    /\ queue = <<>>
    /\ running = {}
    /\ LET r == ExtractRepositories(resps, <<>>)
       IN IF r.raises THEN Abort("AttributeError") /\ UNCHANGED rDF
          ELSE /\ rDF' = DataFrame(r.data)
               /\ pc' = "persist_front_matter"
               /\ UNCHANGED <<error, queue, running, raised, resps>>
    /\ UNCHANGED <<web, totalDocs, totalPages, hfmDF, pmDF,
                   front_matter, metadata, software, run, prev, fetched>>

\* Variant: main() goes on to the metadata table without writing front_matter.
PersistFrontMatter_Skipped ==
    /\ pc = "persist_front_matter"
    /\ pc' = "persist_metadata"
    /\ UNCHANGED <<web, error, totalDocs, totalPages, queue, running, raised, resps,
                   hfmDF, pmDF, rDF, front_matter, metadata, software, run, prev, fetched>>

\* hfmDF.to_sql(name="front_matter", ...)
PersistFrontMatter ==
    /\ pc = "persist_front_matter"
    /\ front_matter' = to_sql(hfmDF, front_matter)
    /\ pc' = "persist_metadata"
    /\ UNCHANGED <<web, error, totalDocs, totalPages, queue, running, raised, resps,
                   hfmDF, pmDF, rDF, metadata, software, run, prev, fetched>>

\* pmDF.to_sql(name="metadata", ...)
PersistMetadata ==
    /\ pc = "persist_metadata"
    /\ metadata' = to_sql(pmDF, metadata)
    /\ pc' = "persist_software"
    /\ UNCHANGED <<web, error, totalDocs, totalPages, queue, running, raised, resps,
                   hfmDF, pmDF, rDF, front_matter, software, run, prev, fetched>>

\* rDF.to_sql(name="software", ...), after which main() returns.
PersistSoftware ==
    /\ pc = "persist_software"
    /\ software' = to_sql(rDF, software)
    /\ pc' = "done"
    /\ UNCHANGED <<web, error, totalDocs, totalPages, queue, running, raised, resps,
                   hfmDF, pmDF, rDF, front_matter, metadata, run, prev, fetched>>

\* The tasks of range(1, pages + 1).
PageTasks == 1..totalPages
DoiTasks == Range(Dois(pmDF))

Next ==
    \/ getTotalNumberOfDocumentsAndPages
    \/ SubmitPages
    \/ WorkerTakes
    \/ \E page \in PageTasks : PageRun(page)
    \/ \E page \in PageTasks : PageRunRaises(page)
    \/ getJOSSHTMLFrontMatter
    \/ main_extractPaperMetadata
    \/ SubmitDois
    \/ \E pairing \in DoiTasks : DoiRun(pairing)
    \/ \E pairing \in DoiTasks : DoiRunRaises(pairing)
    \/ extractRepositoryFromMetadata
    \/ PersistFrontMatter
    \/ PersistMetadata
    \/ PersistSoftware

Spec == Init /\ [][Next]_vars

\* main() run a second time, on a fresh output file, against the same site:
\* every URL requested before answers as it did.
Rerun ==
    /\ run = 1
    /\ pc \in {"done", "aborted"}
    /\ prev' = [pc |-> pc, error |-> error, front_matter |-> front_matter,
                metadata |-> metadata, software |-> software]
    /\ run' = 2
    /\ pc' = "pagination"
    /\ error' = ""
    /\ totalDocs' = 0
    /\ totalPages' = 0
    /\ queue' = <<>>
    /\ running' = {}
    /\ raised' = {}
    /\ resps' = <<>>
    /\ hfmDF' = NoDF
    /\ pmDF' = NoDF
    /\ rDF' = NoDF
    /\ front_matter' = <<>>
    /\ metadata' = <<>>
    /\ software' = <<>>
    /\ fetched' = <<>>
    /\ UNCHANGED web

NextTwoRuns == Next \/ Rerun

SpecTwoRuns == Init /\ [][NextTwoRuns]_vars

\* The pagination arithmetic alone: the root announces any document count up
\* to MaxDocs.
InitPagination ==
    /\ \E d \in 0..MaxDocs :
          web = [root |-> [net |-> TRUE, marker |-> "ok", docs |-> d], site |-> <<>>]
    /\ Fresh
    /\ run = 1
    /\ prev = NoPrev

SpecPagination == InitPagination /\ [][getTotalNumberOfDocumentsAndPages]_vars

\* The DOI normalization alone: main() has assembled the front matter of a
\* one-page site whose single complete card has any anchor target made of
\* these pieces.
HrefTokens == {Origin, "/papers/10.1234", "?ref=", "http://dx.doi.org"}
Hrefs == UNION {[1..n -> HrefTokens] : n \in 1..MaxHrefLen}

OnePageSite(cards) ==
    [root |-> [net |-> TRUE, marker |-> "ok", docs |-> Len(cards)],
     site |-> (PageURL(1) :>
                 [net |-> TRUE, url |-> PageURL(1), status_code |-> 200,
                  html |-> [cards |-> cards]])]

\* State of main() when getJOSSHTMLFrontMatter has returned from that site.
AtMetadata(cards) ==
    /\ web = OnePageSite(cards)
    /\ pc = "metadata"
    /\ error = ""
    /\ totalDocs = Len(cards)
    /\ totalPages = 1
    /\ queue = <<>>
    /\ running = {}
    /\ raised = {}
    /\ resps = <<getPage(PageURL(1), OnePageSite(cards).site[PageURL(1)]).resp>>
    /\ hfmDF = sort_values(DataFrameOfColumns({"url", "page", "status_code", "html"},
                     FrontMatterData(
                       <<getPage(PageURL(1), OnePageSite(cards).site[PageURL(1)]).resp>>)))
    /\ pmDF = NoDF
    /\ rDF = NoDF
    /\ front_matter = <<>>
    /\ metadata = <<>>
    /\ software = <<>>
    /\ fetched = <<RootURL, PageURL(1)>>
    /\ run = 1
    /\ prev = NoPrev

InitDoi ==
    \E t \in Hrefs : AtMetadata(<<[Card(<<1, 1>>, "none") EXCEPT !.href = t]>>)

SpecDoi == InitDoi /\ [][main_extractPaperMetadata]_vars

\* -------------------------------------------------- the badges specification
\* The badge loop alone: extractPaperMetadata applied to the front matter of a
\* one-page site whose cards carry any badge lists made of these fragments.
BadgeChoices ==
    {Badge("Python", "/l/py", FALSE, TRUE),
     Badge("C++", "/l/cpp", TRUE, TRUE),
     Badge("R", "/l/r", FALSE, FALSE)}
BadgeLists == UNION {[1..n -> BadgeChoices] : n \in 0..MaxBadges}

InitBadges ==
    \E n \in 1..MaxCards : \E bs \in [1..n -> BadgeLists] :
        AtMetadata([i \in 1..n |-> [Card(<<1, i>>, "none") EXCEPT !.badges = bs[i]]])

SpecBadges == InitBadges /\ [][main_extractPaperMetadata]_vars

\* ---------------------------------------------------- the pool specification
\* Runs whose batches hold more tasks than the pool has threads: a site of
\* PoolTasks listing pages with one card on the first, and a site of one
\* listing page with PoolTasks cards.
PoolTasks == MaxWorkers + 1

ManyPages(up) ==
    MkWeb([net |-> TRUE, marker |-> "ok", docs |-> PageSize * PoolTasks], up,
          [p \in 1..PoolTasks |-> IF p = 1 /\ up[1] THEN 1 ELSE 0],
          [k \in {<<1, 1>>} |-> "none"])
ManyCards == OnePageSite([i \in 1..PoolTasks |-> Card(<<1, i>>, "none")])

InitPool ==
    /\ web \in {ManyPages(up) : up \in [1..PoolTasks -> BOOLEAN]} \cup {ManyCards}
    /\ Fresh
    /\ run = 1
    /\ prev = NoPrev

SpecPool == InitPool /\ [][Next]_vars

\* ================================================================ properties
\* Page p of the listing answered its request.
PageAnswers(p) == web.site[PageURL(p)].net
FetchedPages == {p \in 1..totalPages : PageAnswers(p)}
\* The front-matter frame has been assembled.
Assembled == pc \notin {"pagination", "frontmatter", "pagebatch"} /\ hfmDF # NoDF
NoRowWritten == front_matter = <<>> /\ metadata = <<>> /\ software = <<>>
\* Position in pmDF of the metadata record with index label id, 0 if none.
MetadataPos(id) ==
    IF \E j \in DOMAIN pmDF.index : pmDF.index[j] = id
    THEN CHOOSE j \in DOMAIN pmDF.index : pmDF.index[j] = id ELSE 0

\* C1: when every page fetch of the batch returned, in whatever order, the
\* assembled front matter holds the N pages, and the record of the page whose
\* URL encodes page=k has id k-1 (id = page - 1 for every record).
C1_IdIsPageMinusOne ==
    (Assembled /\ FetchedPages = 1..totalPages) =>
        /\ Len(hfmDF.rows) = totalPages
        /\ \A i \in DOMAIN hfmDF.rows :
              /\ hfmDF.index[i] = hfmDF.rows[i].page - 1
              /\ hfmDF.rows[i].url = PageURL(hfmDF.index[i] + 1)
              /\ hfmDF.rows[i].html = web.site[PageURL(hfmDF.index[i] + 1)].html

\* C1 witness: two pages were collected in reverse order and assembled.
C1_Witness ==
    /\ pc = "metadata"
    /\ Len(resps) = 2
    /\ resps[1].url = PageURL(2)
    /\ resps[2].url = PageURL(1)
    /\ Len(hfmDF.rows) = 2

\* C2: every software record's metadata_id is an id of the metadata frame, and
\* it is the id of the metadata record whose DOI is the URL whose answer the
\* software record holds.
C2_MetadataIdIsCarried ==
    \A i \in DOMAIN rDF.rows :
        LET s == rDF.rows[i]
            j == MetadataPos(s.metadata_id)
        IN /\ s.metadata_id \in 0..(Len(pmDF.rows) - 1)
           /\ j # 0
           /\ s.html = web.site[pmDF.rows[j].doi].html
           /\ s.repository_url = RepoURL(pmDF.rows[j].doi)

\* C2 witness: two DOI pages completed in reverse submission order and both
\* software records were extracted.
C2_Witness ==
    /\ pc = "persist_front_matter"
    /\ Len(resps) = 2
    /\ resps[1][1] = 1
    /\ resps[2][1] = 0
    /\ Len(rDF.rows) = 2

\* C3: every metadata record's front_matter_id is the id of the front-matter
\* record whose HTML holds its card, and front_matter_id never decreases along
\* ascending metadata ids.
C3_FrontMatterIdIsSource ==
    /\ \A j \in DOMAIN pmDF.rows :
          \E i \in DOMAIN hfmDF.rows :
              /\ hfmDF.index[i] = pmDF.rows[j].front_matter_id
              /\ \E c \in DOMAIN hfmDF.rows[i].html.cards :
                    hfmDF.rows[i].html.cards[c].key = pmDF.rows[j].title
              /\ hfmDF.rows[i].url = PageURL(pmDF.rows[j].title[1])
    /\ \A a, b \in DOMAIN pmDF.rows :
          pmDF.index[a] < pmDF.index[b] =>
              pmDF.rows[a].front_matter_id <= pmDF.rows[b].front_matter_id

\* C3 witness: page 2 was collected before page 1; the card of page 1 became
\* metadata 0 of front matter 0, the card of page 2 metadata 1 of front matter 1.
C3_Witness ==
    /\ pc = "repository"
    /\ Len(resps) = 2
    /\ resps[1].url = PageURL(2)
    /\ Len(pmDF.rows) = 2
    /\ pmDF.rows[1].front_matter_id = 0
    /\ pmDF.rows[1].title = <<1, 1>>
    /\ pmDF.rows[2].front_matter_id = 1
    /\ pmDF.rows[2].title = <<2, 1>>

\* C4: in a completed run the ids of each stage, in the frames and in the
\* tables, are exactly 0..n-1 in insertion order: no gap, no duplicate.
C4_DenseIds ==
    pc = "done" =>
        /\ \A i \in DOMAIN front_matter : front_matter[i].id = i - 1
        /\ \A i \in DOMAIN metadata : metadata[i].id = i - 1
        /\ \A i \in DOMAIN software : software[i].id = i - 1
        /\ Len(front_matter) = Len(hfmDF.rows)
        /\ Len(metadata) = Len(pmDF.rows)
        /\ Len(software) = Len(rDF.rows)
        /\ \A i \in DOMAIN hfmDF.index : hfmDF.index[i] = i - 1
        /\ \A i \in DOMAIN pmDF.index : pmDF.index[i] = i - 1
        /\ \A i \in DOMAIN rDF.index : rDF.index[i] = i - 1

\* C4 witness: a completed run in which page 1 did not answer, the second
\* card of page 2 is metadata 1, and the DOI fetch of metadata 0 failed.
C4_Witness ==
    /\ pc = "done"
    /\ totalPages = 2
    /\ ~PageAnswers(1)
    /\ Len(front_matter) = 1
    /\ Len(metadata) = 2
    /\ Len(software) = 1
    /\ software[1].id = 0
    /\ software[1].row.metadata_id = 1

\* C5 (as claimed): a second completed run against the same answers writes the
\* same rows, ids included, as the first.
C5_RunsAgree ==
    (run = 2 /\ pc = "done" /\ prev.pc = "done") =>
        /\ front_matter = prev.front_matter
        /\ metadata = prev.metadata
        /\ software = prev.software

\* C6: the page count is the ceiling of totalDocs / 20, that is
\* d // 20 + (1 if d % 20 != 0 else 0); 100 gives 5, 101 gives 6, 0 gives 0.
C6_PagesIsCeiling ==
    pc = "frontmatter" =>
        /\ totalPages = (totalDocs \div 20) + (IF totalDocs % 20 # 0 THEN 1 ELSE 0)
        /\ 20 * totalPages >= totalDocs
        /\ 20 * totalPages < totalDocs + 20
        /\ (totalDocs = 100 => totalPages = 5)
        /\ (totalDocs = 101 => totalPages = 6)
        /\ (totalDocs = 0 => totalPages = 0)

\* C6 witness: 101 documents were read and the page count computed.
C6_Witness == pc = "frontmatter" /\ totalDocs = 101 /\ totalPages = 6

\* C7 (as claimed): once the DOI batch has been joined and its responses read,
\* the run has not aborted, and there is a software record for exactly the
\* metadata records whose landing page answered with a repository link.
C7_FailureOnlyOmits ==
    (pmDF.rows # <<>> /\ pc \notin {"repository", "doibatch"}) =>
        /\ pc # "aborted"
        /\ {rDF.rows[i].metadata_id : i \in DOMAIN rDF.rows}
             = {pmDF.index[j] : j \in {j \in DOMAIN pmDF.rows :
                   /\ web.site[pmDF.rows[j].doi].net
                   /\ web.site[pmDF.rows[j].doi].html.div
                   /\ web.site[pmDF.rows[j].doi].html.links # <<>>}}

C9_AllPagesFailIsFatal ==
    (totalPages >= 1 /\ FetchedPages = {}) =>
        /\ pc \in {"frontmatter", "pagebatch", "metadata", "repository", "aborted"}
        /\ (pc = "aborted" => error = "KeyError")
        /\ NoRowWritten

\* C9 witness: both pages failed and the run ended with the KeyError.
C9_Witness ==
    /\ pc = "aborted"
    /\ error = "KeyError"
    /\ totalPages = 2
    /\ FetchedPages = {}
    /\ NoRowWritten

\* C10: when a card of an assembled front-matter page lacks its status, time,
\* title or DOI anchor, no metadata frame is returned, the run can only end
\* aborted with the extraction's error, and no row is written.
C10_MalformedCardIsFatal ==
    (Assembled /\ \E i \in DOMAIN hfmDF.rows : \E c \in DOMAIN hfmDF.rows[i].html.cards :
          hfmDF.rows[i].html.cards[c].missing \in {"status", "time", "title", "doi"}) =>
        /\ pmDF = NoDF
        /\ pc \in {"metadata", "aborted"}
        /\ (pc = "aborted" => error = "AttributeError")
        /\ NoRowWritten

\* C10 witness: a complete card precedes an incomplete one on the same page,
\* and the run has aborted with no metadata.
C10_Witness ==
    /\ pc = "aborted"
    /\ error = "AttributeError"
    /\ \E i \in DOMAIN hfmDF.rows :
          /\ Len(hfmDF.rows[i].html.cards) = 2
          /\ hfmDF.rows[i].html.cards[1].missing = "none"
          /\ hfmDF.rows[i].html.cards[2].missing = "title"
    /\ pmDF = NoDF
    /\ NoRowWritten

\* C11 (as claimed): the stored doi is the anchor target t unchanged when t
\* begins with the canonical origin and the origin followed by t otherwise;
\* it always begins with the origin, and normalizing it again changes nothing.
C11_DoiIsNormalized ==
    pc = "repository" =>
        LET t == hfmDF.rows[1].html.cards[1].href
            doi == pmDF.rows[1].doi
        IN /\ (t[1] = Origin => doi = t)
           /\ (t[1] # Origin => doi = <<Origin>> \o t)
           /\ doi[1] = Origin
           /\ NormalizeDoi(doi) = doi

\* The ids held by a table.
TableIds(t) == {t[i].id : i \in DOMAIN t}

\* C12: the tables are written in the order front_matter, metadata, software,
\* each row under its frame's index label; every metadata row written has a
\* front_matter_id that is the id of a row front_matter already holds, and
\* every software row written has a metadata_id that is the id of a row
\* metadata already holds.
C12_ForeignKeysExistAtWrite ==
    [][/\ front_matter' # front_matter =>
            /\ metadata = <<>> /\ software = <<>>
            /\ Len(front_matter') = Len(hfmDF.rows)
            /\ \A i \in DOMAIN front_matter' :
                  /\ front_matter'[i].id = hfmDF.index[i]
                  /\ front_matter'[i].row = hfmDF.rows[i]
       /\ metadata' # metadata =>
            /\ software = <<>>
            /\ Len(front_matter) = Len(hfmDF.rows)
            /\ Len(metadata') = Len(pmDF.rows)
            /\ \A i \in DOMAIN metadata' :
                  /\ metadata'[i].id = pmDF.index[i]
                  /\ metadata'[i].row.front_matter_id \in TableIds(front_matter)
       /\ software' # software =>
            /\ Len(metadata) = Len(pmDF.rows)
            /\ Len(software') = Len(rDF.rows)
            /\ \A i \in DOMAIN software' :
                  /\ software'[i].id = rDF.index[i]
                  /\ software'[i].row.metadata_id \in TableIds(metadata)
      ]_vars

\* C12 witness: all three tables are written; the second metadata row points
\* at front matter 1 and the first software row at metadata 1.
C12_Witness ==
    /\ pc = "done"
    /\ Len(front_matter) = 2
    /\ Len(metadata) = 2
    /\ metadata[2].row.front_matter_id = 1
    /\ Len(software) = 2
    /\ software[1].row.metadata_id = 1

\* A URL of a listing page (f".../papers?page={page}").
IsPageURL(url) == Len(url) >= 2 /\ url[2] = "/papers?page"
BootstrapFails == ~web.root.net \/ web.root.marker # "ok"

\* C13: nothing is fetched or scheduled before pagination has run; a listing
\* page is fetched only after the root was, and only when the root gave a
\* page count; when the bootstrap fetch fails or the marker is missing or
\* malformed the run can only abort, with the root as its single fetch, no
\* task scheduled and no row written.
C13_NoFetchBeforePageCount ==
    /\ pc = "pagination" => fetched = <<>> /\ queue = <<>> /\ running = {}
    /\ (queue # <<>> \/ running # {}) => pc \in {"pagebatch", "doibatch"}
    /\ \A i \in DOMAIN fetched :
          IsPageURL(fetched[i]) =>
              /\ i > 1
              /\ fetched[1] = RootURL
              /\ ~BootstrapFails
              /\ fetched[i] \in {PageURL(p) : p \in 1..totalPages}
    /\ BootstrapFails =>
          /\ pc \in {"pagination", "aborted"}
          /\ fetched \in {<<>>, <<RootURL>>}
          /\ queue = <<>> /\ running = {}
          /\ NoRowWritten
          /\ (pc = "aborted" =>
                error \in {"ConnectionError", "AttributeError", "ValueError"})

\* C13 witness: the root answered with a malformed marker and the run aborted
\* after that one fetch.
C13_Witness ==
    /\ pc = "aborted"
    /\ web.root.marker = "malformed"
    /\ error = "ValueError"
    /\ fetched = <<RootURL>>
    /\ NoRowWritten

\* The software rows held by the frame and by the table.
SoftwareRows ==
    (IF rDF = NoDF THEN {} ELSE Range(rDF.rows))
        \cup {software[i].row : i \in DOMAIN software}
\* The landing page of metadata record id was fetched, answered, and holds a
\* button group with an anchor.
LinkLocated(id) ==
    /\ MetadataPos(id) # 0
    /\ LET doi == pmDF.rows[MetadataPos(id)].doi
       IN /\ \E i \in DOMAIN fetched : fetched[i] = doi
          /\ doi \in DOMAIN web.site
          /\ web.site[doi].net
          /\ web.site[doi].html.div
          /\ web.site[doi].html.links # <<>>

\* C14: no two software records share a metadata_id, in the frame or in the
\* table, and a software record exists only for a metadata record whose DOI
\* page was fetched and whose repository anchor was found, the record holding
\* that anchor's href.
C14_ZeroOrOneSoftware ==
    /\ rDF # NoDF =>
          \A i, j \in DOMAIN rDF.rows :
              rDF.rows[i].metadata_id = rDF.rows[j].metadata_id => i = j
    /\ \A i, j \in DOMAIN software :
          software[i].row.metadata_id = software[j].row.metadata_id => i = j
    /\ \A r \in SoftwareRows :
          /\ LinkLocated(r.metadata_id)
          /\ r.repository_url
                = web.site[pmDF.rows[MetadataPos(r.metadata_id)].doi].html.links[1]

\* C14 witness: a completed run with two metadata records in which the DOI
\* page of record 1 did not answer, so that record 0 alone has a software row.
C14_Witness ==
    /\ pc = "done"
    /\ Len(metadata) = 2
    /\ Len(software) = 1
    /\ software[1].row.metadata_id = 0
    /\ ~LinkLocated(1)
    /\ \E pairing \in raised : pairing[1] = 1

\* The cards of the assembled front matter, page after page, each page's in
\* document order.
RECURSIVE CardsFrom(_)
CardsFrom(i) ==
    IF i > Len(hfmDF.rows) THEN <<>>
    ELSE hfmDF.rows[i].html.cards \o CardsFrom(i + 1)
\* json.loads of a dumped badge list.
LoadsEntry(e) ==
    LET parts == Split(SubSeq(e, 2, Len(e) - 1), "\", \"uri\": \"")
    IN [language |-> parts[1], uri |-> parts[2]]
Loads(s) ==
    LET inner == SubSeq(s, 2, Len(s) - 1)
    IN IF inner = <<>> THEN <<>>
       ELSE [i \in DOMAIN Split(inner, ", ") |-> LoadsEntry(Split(inner, ", ")[i])]

\* C15: when extractPaperMetadata returns, the metadata frame holds exactly one
\* record per paper card, in page order and document order within the page,
\* and the badges of each record decode to one {language, uri} entry per
\* badge fragment of its card, in document order, white space stripped.
C15_OneRecordPerCardWithBadges ==
    pmDF # NoDF =>
        /\ Len(pmDF.rows) = Len(CardsFrom(1))
        /\ \A k \in DOMAIN pmDF.rows :
              LET card == CardsFrom(1)[k]
              IN /\ pmDF.rows[k].title = card.key
                 /\ Loads(pmDF.rows[k].badges)
                       = [i \in DOMAIN card.badges |->
                             [language |-> <<card.badges[i].language>>,
                              uri |-> <<card.badges[i].uri>>]]

\* C15 witness: of two cards the first shows Python then C++ (the latter
\* padded with white space) and the second no badge; the records read
\* [Python, C++] and [].
C15_Witness ==
    /\ pc = "repository"
    /\ Len(pmDF.rows) = 2
    /\ Len(CardsFrom(1)) = 2
    /\ Len(CardsFrom(1)[1].badges) = 2
    /\ CardsFrom(1)[1].badges[2].padded
    /\ Loads(pmDF.rows[1].badges)
          = <<[language |-> <<"Python">>, uri |-> <<"/l/py">>],
              [language |-> <<"C++">>, uri |-> <<"/l/cpp">>]>>
    /\ pmDF.rows[2].badges = <<"[", "]">>

\* Every one of the n tasks of the batch has returned or raised.
Joined(n) ==
    /\ queue = <<>>
    /\ running = {}
    /\ Len(resps) + Cardinality(raised) = n

\* C16: the step that reads the collector of a batch (front-matter assembly;
\* repository extraction) is taken only when every task of the batch has
\* returned or raised, the frames change in no other step, and a step that
\* writes a table is taken with no task waiting or in flight.
C16_Barrier ==
    [][/\ (pc = "pagebatch" /\ pc' # "pagebatch") => Joined(totalPages)
       /\ (pc = "doibatch" /\ pc' # "doibatch") => Joined(Len(pmDF.rows))
       /\ hfmDF' # hfmDF => pc = "pagebatch" /\ Joined(totalPages)
       /\ rDF' # rDF => pc = "doibatch" /\ Joined(Len(pmDF.rows))
       /\ (front_matter' # front_matter \/ metadata' # metadata
              \/ software' # software) =>
             /\ queue = <<>> /\ running = {}
             /\ queue' = <<>> /\ running' = {}
       /\ (pc' \notin {"pagebatch", "doibatch"}) => queue' = <<>> /\ running' = {}
      ]_vars

\* C16 witness: the front matter of a two-page site has been assembled after
\* one task returned and the other raised.
C16_Witness ==
    /\ pc = "metadata"
    /\ totalPages = 2
    /\ Len(resps) = 1
    /\ Cardinality(raised) = 1
    /\ Len(hfmDF.rows) = 1
    /\ running = {}

\* The task has left the pool and its getPage returned.
Returned(task) ==
    /\ task \notin Range(queue)
    /\ task \notin running
    /\ task \notin raised
InPageBatch == pc \in {"pagebatch", "metadata", "repository"}
InDoiBatch ==
    pc \in {"doibatch", "persist_front_matter", "persist_metadata",
            "persist_software", "done"}

\* C17: during and after a batch, under every interleaving of the workers,
\* the collector holds exactly one entry for each task whose getPage has
\* returned and none for any other; each entry is the answer of its URL, and
\* in the DOI batch the index of an entry is that of the metadata record whose
\* DOI the response answers.
C17_CollectorKeepsEveryAppend ==
    /\ InPageBatch =>
          /\ \A p \in 1..totalPages :
                Cardinality({i \in DOMAIN resps : resps[i].url = PageURL(p)})
                    = IF Returned(p) THEN 1 ELSE 0
          /\ \A i \in DOMAIN resps :
                /\ \E p \in 1..totalPages : resps[i].url = PageURL(p)
                /\ resps[i].content = web.site[resps[i].url].html
    /\ InDoiBatch =>
          /\ \A pairing \in DoiTasks :
                Cardinality({i \in DOMAIN resps : resps[i][1] = pairing[1]})
                    = IF Returned(pairing) THEN 1 ELSE 0
          /\ \A i \in DOMAIN resps :
                /\ \E pairing \in DoiTasks :
                      /\ resps[i][1] = pairing[1]
                      /\ resps[i][2].url = pairing[2]
                /\ resps[i][2].content = web.site[resps[i][2].url].html

\* C17 witness: two DOI fetches in flight together returned in the order
\* opposite to their submission, and the collector holds both.
C17_Witness ==
    /\ pc = "doibatch"
    /\ queue = <<>>
    /\ running = {}
    /\ raised = {}
    /\ Len(resps) = 2
    /\ resps[1][1] = 1
    /\ resps[2][1] = 0

\* How many times getPage was called with the URL.
Fetches(url) == Cardinality({i \in DOMAIN fetched : fetched[i] = url})
PageBatchJoined ==
    pc \in {"metadata", "repository", "doibatch", "persist_front_matter",
            "persist_metadata", "persist_software", "done"}

Tables == <<front_matter, metadata, software>>
PersistSteps == {"persist_front_matter", "persist_metadata", "persist_software"}

\* C19: a table changes only in a persistence step, which is taken only when
\* pagination, the page batch, metadata extraction and repository resolution
\* have all returned their frames; until then the tables hold no row, and a
\* step that aborts the run leaves all three tables as they were.
C19_PersistenceIsTerminal ==
    [][/\ Tables' # Tables =>
            /\ pc \in PersistSteps
            /\ hfmDF # NoDF /\ pmDF # NoDF
            /\ queue = <<>> /\ running = {}
            /\ hfmDF' = hfmDF /\ pmDF' = pmDF /\ rDF' = rDF
       /\ pc \notin (PersistSteps \cup {"done"}) => NoRowWritten
       /\ pc' \notin (PersistSteps \cup {"done"}) =>
             front_matter' = <<>> /\ metadata' = <<>> /\ software' = <<>>
       /\ pc' = "aborted" => Tables' = Tables
       /\ pc \in PersistSteps => pc' \in PersistSteps \cup {"done"}
      ]_vars

\* C19 witness: the run aborted in repository resolution, after metadata
\* extraction had returned two records, and no table holds a row.
C19_Witness ==
    /\ pc = "aborted"
    /\ error = "AttributeError"
    /\ pmDF # NoDF
    /\ Len(pmDF.rows) = 2
    /\ rDF = NoDF
    /\ NoRowWritten

\* C20: at every moment of a run the fetches in flight are at most as many
\* as the pool has threads, whatever the number of tasks of the batch, and
\* none is in flight outside the two batches.
C20_InFlightBounded ==
    /\ Cardinality(running) <= MaxWorkers
    /\ running # {} => pc \in {"pagebatch", "doibatch"}
    /\ pc = "pagebatch" => running \subseteq 1..totalPages
    /\ pc = "doibatch" => running \subseteq DoiTasks

\* C20 witness: in a DOI batch of more tasks than threads every thread is
\* fetching and a task is still waiting.
C20_Witness ==
    /\ pc = "doibatch"
    /\ Cardinality(DoiTasks) > MaxWorkers
    /\ Cardinality(running) = MaxWorkers
    /\ queue # <<>>

====
